---- MODULE Spec2Model ----
(***************************************************************************)
(* Staff front of the support portal (src/app.py): the ticket store, the   *)
(* cached dashboard query, and the per-session view router, one action per *)
(* script run.  A script run is what the UI framework executes, top to     *)
(* bottom, after one user interaction or after st.rerun().                 *)
(***************************************************************************)
EXTENDS Integers, Sequences, FiniteSets, TLC

(* ------------------------------ bounds -------------------------------- *)
NumSessions == 2
NumTickets == 2
MaxTime == 1
MaxUpdates == 2
MaxDeletes == 1
MaxExpiries == 1
QTickets == 3
MaxPageSize == 2

(* the dashboard's page size (src/app.py:115 sets 50; scaled to the store) *)
PAGE_SIZE == 1

(* --------------------------- value domains ---------------------------- *)
Sessions == 1..NumSessions
Ids == 1..NumTickets

\* Python None, and a field missing from a stored document
None == "<None>"
Absent == "<absent>"
\* st.session_state.page before any assignment (the attribute is missing)
NoPage == -1

\* the staff directory: users = fetch_all_users()
users ==
  << [username |-> "kirk", name |-> "Kirk"],
     [username |-> "spock", name |-> "Spock"] >>

\* staff_name_list = [user.get("name", "Unknown Staff") for user in users]
staff_name_list ==
  [i \in 1..Len(users) |->
     IF users[i].name = Absent THEN "Unknown Staff" ELSE users[i].name]

\* the display name the authenticator puts in st.session_state.name
SessionName(s) == staff_name_list[((s - 1) % Len(staff_name_list)) + 1]

SeqToSet(q) == {q[i] : i \in 1..Len(q)}

Contains(q, x) == \E i \in 1..Len(q) : q[i] = x

\* list.index(x): the first position of x
IndexOf(q, x) == CHOOSE i \in 1..Len(q) : q[i] = x /\ \A j \in 1..(i - 1) : q[j] # x

\* str(ObjectId) as shown in the data frame, and ObjectId(str) parsing it back
OidStr(t) == "oid" \o ToString(t)

ObjectId(str) == CHOOSE t \in 1..(NumTickets + QTickets) : OidStr(t) = str

(* ------------------------- internal_notes text ------------------------ *)
\* Text is a sequence of tokens: a character, or the header line
\* "--- Update by {name} ({now}) ---\n" kept as one token.
Ch(c) == [k |-> "ch", by |-> "", at |-> 0, c |-> c]

Hdr(n, t) == [k |-> "hdr", by |-> n, at |-> t, c |-> ""]

IsSpace(tok) == tok.k = "ch" /\ tok.c \in {" ", "\n"}

\* str.strip(): drop leading and trailing whitespace
RECURSIVE LStrip(_)
LStrip(txt) ==
  IF txt # <<>> /\ IsSpace(Head(txt)) THEN LStrip(Tail(txt)) ELSE txt

RECURSIVE RStrip(_)
RStrip(txt) ==
  IF txt # <<>> /\ IsSpace(txt[Len(txt)])
    THEN RStrip(SubSeq(txt, 1, Len(txt) - 1))
    ELSE txt

Strip(txt) == RStrip(LStrip(txt))

\* a block without its blank-line separator
NoteEntryNoSeparator(name, t, new_notes) == <<Hdr(name, t)>> \o new_notes

\* note_entry = f"--- Update by {name} ({now}) ---\n{new_notes}\n\n"
note_entry(name, t, new_notes) ==
  <<Hdr(name, t)>> \o new_notes \o <<Ch("\n"), Ch("\n")>>

\* a block for every save, blank note or not
FinalNotesAlwaysPrepend(name, t, new_notes, current_notes) ==
  note_entry(name, t, new_notes) \o current_notes

\* the new block in place of the notes read
FinalNotesReplace(name, t, new_notes, current_notes) ==
  IF Strip(new_notes) # <<>> THEN note_entry(name, t, new_notes) ELSE current_notes

\* final_notes = note_entry + current_notes if new_notes.strip() else current_notes
final_notes(name, t, new_notes, current_notes) ==
  IF Strip(new_notes) # <<>>
    THEN note_entry(name, t, new_notes) \o current_notes
    ELSE current_notes

\* the selection stored as it is, "Unassigned" included
FinalAssigneeVerbatim(new_assignee) == new_assignee

\* final_assignee = None if new_assignee == "Unassigned" else new_assignee
final_assignee(new_assignee) ==
  IF new_assignee = "Unassigned" THEN None ELSE new_assignee

IsSuffix(a, b) ==
  Len(a) <= Len(b) /\ SubSeq(b, Len(b) - Len(a) + 1, Len(b)) = a

(* ------------------------------ the store ----------------------------- *)
\* A document of tickets_collection; present = FALSE once it was removed.
Ticket(st, as, notes, created) ==
  [present |-> TRUE, status |-> st, assigned_to |-> as,
   internal_notes |-> notes, created_at |-> created]

NoTicket == [present |-> FALSE, status |-> "", assigned_to |-> None,
             internal_notes |-> <<>>, created_at |-> 0]

\* status_options of the dashboard filter and of the update form
FilterStatusOptions == <<"All", "New", "In Progress", "Awaiting User", "Closed">>

CanonicalStatus == <<"New", "In Progress", "Awaiting User", "Closed">>

\* assignee_options = ["All"] + unique(["Unassigned"] + staff_list)
FilterAssigneeOptions == <<"All", "Unassigned">> \o staff_name_list

\* "Unassigned" as {"$in": [None]}: the empty string is left out
BuildQueryUnassignedNullOnly(status_filter, assignee_filter) ==
  [has_status |-> status_filter # "All",
   status |-> status_filter,
   has_assignee |-> assignee_filter # "All",
   assigned_in |-> IF assignee_filter = "Unassigned" THEN {None} ELSE {assignee_filter}]

(* query = {}; if status_filter != "All": ...; if assignee_filter == ...   *)
BuildQuery(status_filter, assignee_filter) ==
  [has_status |-> status_filter # "All",
   status |-> status_filter,
   has_assignee |-> assignee_filter # "All",
   assigned_in |-> IF assignee_filter = "Unassigned"
                     THEN {None, ""}
                     ELSE {assignee_filter}]

\* the store's matching of one document: an equality or $in on null also
\* matches a document that lacks the field
MongoMatch(doc, query) ==
  /\ doc.present
  /\ query.has_status => doc.status = query.status
  /\ query.has_assignee =>
       \/ doc.assigned_to \in query.assigned_in
       \/ doc.assigned_to = Absent /\ None \in query.assigned_in

Matching(coll, query) == {t \in DOMAIN coll : MongoMatch(coll[t], query)}

\* tickets_collection.count_documents(query)
count_documents(coll, query) == Cardinality(Matching(coll, query))

\* .sort("created_at", DESCENDING): every order of the matching documents
\* that is non-increasing in created_at (documents with equal created_at
\* come in an order the store chooses per query)
SortedOrders(coll, query) ==
  LET M == Matching(coll, query)
      n == Cardinality(M)
  IN {f \in [1..n -> M] :
        /\ \A i, j \in 1..n : i # j => f[i] # f[j]
        /\ \A i \in 1..n : \A j \in 1..n :
             i < j => coll[f[i]].created_at >= coll[f[j]].created_at}

Min(a, b) == IF a < b THEN a ELSE b

\* .skip(skip_amount).limit(page_size)
SkipLimit(ord, skip_amount, page_size) ==
  SubSeq(ord, skip_amount + 1, Min(Len(ord), skip_amount + page_size))

\* one row of the data frame: _id as a string, and the displayed columns
Row(coll, t) ==
  [_id |-> OidStr(t), status |-> coll[t].status,
   assigned_to |-> coll[t].assigned_to, created_at |-> coll[t].created_at]

EmptyResult == [rows |-> <<>>, total |-> 0]

\* The body of get_all_tickets for one choice ord of the store's sort order;
\* ok = FALSE is a store call that raises (the except branch).
get_all_tickets(coll, ord, ok, page_number, page_size, status_filter, assignee_filter) ==
  IF ~ok THEN EmptyResult
  ELSE
    LET query == BuildQuery(status_filter, assignee_filter)
        total_tickets == count_documents(coll, query)
        skip_amount == page_number * page_size
        tickets == SkipLimit(ord, skip_amount, page_size)
    IN IF tickets = <<>> THEN EmptyResult
       ELSE [rows |-> [i \in 1..Len(tickets) |-> Row(coll, tickets[i])],
             total |-> total_tickets]

\* every result the body can produce on coll for these arguments
FreshResults(coll, page_number, page_size, status_filter, assignee_filter) ==
  {get_all_tickets(coll, ord, ok, page_number, page_size, status_filter, assignee_filter) :
     ord \in SortedOrders(coll, BuildQuery(status_filter, assignee_filter)),
     ok \in BOOLEAN}

\* total_pages = (total_tickets + PAGE_SIZE - 1) // PAGE_SIZE
total_pages(total_tickets) == (total_tickets + PAGE_SIZE - 1) \div PAGE_SIZE

\* a write of status and assigned_to that leaves internal_notes alone
UpdateOneKeepNotes(coll, t, new_status, assignee, notes) ==
  IF coll[t].present
    THEN [coll EXCEPT ![t].status = new_status, ![t].assigned_to = assignee]
    ELSE coll

\* tickets_collection.update_one({"_id": id}, {"$set": {...}}): all three
\* fields of the matching document in one step; no match, no change
update_one(coll, t, new_status, assignee, notes) ==
  IF coll[t].present
    THEN [coll EXCEPT ![t].status = new_status,
                      ![t].assigned_to = assignee,
                      ![t].internal_notes = notes]
    ELSE coll

\* tickets_collection.find_one({"_id": id}): the document, or None
find_one(coll, t) == IF t \in DOMAIN coll /\ coll[t].present THEN coll[t] ELSE NoTicket

(* ------------------------------- state -------------------------------- *)
VARIABLES
  store,      \* tickets_collection: id -> document
  cache,      \* st.cache_data of get_all_tickets: argument tuple -> result
  now,        \* datetime.now() in minutes
  deletes,    \* documents removed from the collection so far
  updates,    \* update_one calls made so far
  expiries,   \* cache entries dropped by the ttl so far
  auth,       \* st.session_state.authentication_status, per session
  view,       \* st.session_state.view
  selected,   \* st.session_state.selected_ticket_id (a string, or None)
  page,       \* st.session_state.page (NoPage while the attribute is missing)
  fstatus,    \* value of the "Filter by Status:" select box
  fassignee,  \* value of the "Filter by Assignee:" select box
  screen,     \* what the session's last script run left on the screen
  shown,      \* rows and total_pages of the data frame on the screen
  pc,         \* "idle", "rerun" (st.rerun() pending), "submit" (inside a save)
  cur,        \* current_ticket of the save in progress
  fault,      \* how the store call of the session's latest run failed, if it did
  lastQ,      \* arguments of the session's latest get_all_tickets call
  lastW,      \* per ticket: the latest update_one (what it read, found, set)
  orig,       \* per ticket: internal_notes before any update
  log,        \* per ticket: author, time and text of every note written
  raced,      \* per ticket: an update_one ran while another save had read it
  qstore,     \* a collection the query function is applied to
  qres,       \* the latest application of get_all_tickets to qstore
  walk,       \* the pages fetched so far in a walk over qstore, in order
  uri,        \* os.environ has MONGO_URI
  reach,      \* client.admin.command('ping') goes through
  directory,  \* the documents of staff_collection
  client,     \* st.cache_resource of init_connection: "unset", "none", "ok"
  fetched     \* st.cache_data of fetch_all_users: whether set, and the list

storeVars == <<store, deletes, updates>>
sessVars == <<auth, view, selected, page, fstatus, fassignee, screen, shown, pc, cur, fault>>
histVars == <<lastQ, lastW, orig, log, raced>>
queryVars == <<qstore, qres, walk>>
bootVars == <<uri, reach, directory, client, fetched>>
vars == <<store, cache, now, deletes, updates, expiries, auth, view, selected, page, fstatus,
          fassignee, screen, shown, pc, cur, fault, lastQ, lastW, orig, log, raced,
          qstore, qres, walk, uri, reach, directory, client, fetched>>

NoShown == [rows |-> 0, pages |-> 0]
NoQuery == [any |-> FALSE, page |-> 0, status |-> "All", assignee |-> "All"]
NoWrite ==
  [any |-> FALSE, status |-> "", assigned_to |-> None, internal_notes |-> <<>>,
   note |-> <<>>, read |-> <<>>, before |-> <<>>]
NoApplication ==
  [any |-> FALSE, ok |-> TRUE, ord |-> <<>>, page |-> 0, size |-> 1,
   status |-> "All", assignee |-> "All", rows |-> <<>>, total |-> 0]
NoWalk == [status |-> "All", assignee |-> "All", total |-> 0, pages |-> <<>>]
EmptyCache == [k \in {} |-> EmptyResult]

(* What the users of one specification do: the sessions that act, the filter
   values they pick, and what they enter in the update form (besides the
   form's defaults). *)
UiInputs ==
  [sessions |-> {1},
   sf |-> {"All", "Closed"}, af |-> {"All"},
   status |-> {"New", "Closed"}, assignee |-> {"Unassigned"},
   notes |-> {<<>>, <<Ch("a")>>}]

NotesInputs ==
  [sessions |-> Sessions,
   sf |-> {"Closed"}, af |-> {"All"},
   status |-> {"New"}, assignee |-> {"Kirk"},
   notes |-> {<<>>, <<Ch(" ")>>, <<Ch("a")>>}]

UiTickets ==
  {Ticket(st, None, <<Ch("o")>>, c) : st \in {"Closed", "Legacy"}, c \in Ids}

NotesTickets ==
  {Ticket("Closed", None, IF c % 2 = 1 THEN <<>> ELSE <<Ch("o")>>, c) : c \in Ids}

\* tickets for the update form: a canonical status on odd ids, a legacy or a
\* missing one on even ids; no assignee, or one who has left the directory
FormInputs ==
  [sessions |-> {1},
   sf |-> {"All", "Closed"}, af |-> {"All"},
   status |-> SeqToSet(CanonicalStatus), assignee |-> {"Unassigned", "Kirk"},
   notes |-> {<<>>, <<Ch("a")>>}]

FormTickets ==
  {Ticket(st, as, <<Ch("o")>>, c) :
     st \in {"Closed", "Legacy", Absent}, as \in {None, "Zed"}, c \in Ids}

QueryTickets ==
  {Ticket(st, as, <<>>, c) :
     st \in {"New", "Closed"}, as \in {None, "", Absent, "Kirk"}, c \in 1..2}

\* the process is up: the connection and the staff directory are cached
Booted ==
  /\ uri = TRUE
  /\ reach = TRUE
  /\ directory = users
  /\ client = "ok"
  /\ fetched = [set |-> TRUE, users |-> users]

\* ids are handed out in creation order: ticket t was created at time t
InitWith(tickets) ==
  /\ store \in [Ids -> tickets]
  /\ \A t \in Ids : store[t].created_at = t
  /\ cache = EmptyCache
  /\ now = 0
  /\ deletes = 0
  /\ updates = 0
  /\ expiries = 0
  /\ auth = [s \in Sessions |-> None]
  /\ view = [s \in Sessions |-> "dashboard"]
  /\ selected = [s \in Sessions |-> None]
  /\ page = [s \in Sessions |-> NoPage]
  /\ fstatus = [s \in Sessions |-> "All"]
  /\ fassignee = [s \in Sessions |-> "All"]
  /\ screen = [s \in Sessions |-> "login"]
  /\ shown = [s \in Sessions |-> NoShown]
  /\ pc = [s \in Sessions |-> "idle"]
  /\ cur = [s \in Sessions |-> NoTicket]
  /\ fault = [s \in Sessions |-> "none"]
  /\ lastQ = [s \in Sessions |-> NoQuery]
  /\ lastW = [t \in Ids |-> NoWrite]
  /\ orig = [t \in Ids |-> store[t].internal_notes]
  /\ log = [t \in Ids |-> <<>>]
  /\ raced = [t \in Ids |-> FALSE]
  /\ qres = NoApplication

Init ==
  /\ InitWith(UiTickets) /\ Booted
  /\ qstore = [t \in {} |-> NoTicket] /\ walk = NoWalk

NotesInit ==
  /\ InitWith(NotesTickets) /\ Booted
  /\ qstore = [t \in {} |-> NoTicket] /\ walk = NoWalk

FormInit ==
  /\ InitWith(FormTickets)
  /\ Booted
  /\ \A t \in Ids : (store[t].status = "Closed") <=> (t % 2 = 1)
  /\ qstore = [t \in {} |-> NoTicket] /\ walk = NoWalk

\* a collection for the query function alone: any statuses and assignees,
\* creation times that may coincide
QueryInit ==
  /\ InitWith(NotesTickets)
  /\ Booted
  /\ qstore \in [1..QTickets -> QueryTickets]
  /\ \A t \in 1..(QTickets - 1) : qstore[t].created_at <= qstore[t + 1].created_at
  /\ walk = NoWalk

\* the same collections, for a walk through the pages of one filter pair
WalkInit ==
  /\ InitWith(NotesTickets)
  /\ Booted
  /\ qstore \in [1..QTickets -> QueryTickets]
  /\ \A t \in 1..(QTickets - 1) : qstore[t].created_at <= qstore[t + 1].created_at
  /\ walk \in [status : {"All", "New"}, assignee : {"All"}, total : {0}, pages : {<<>>}]

(* ---------------------------- environment ----------------------------- *)
\* a minute passes
Tick ==
  /\ now < MaxTime
  /\ now' = now + 1
  /\ UNCHANGED <<storeVars, cache, expiries, sessVars, histVars, queryVars, bootVars>>

\* @st.cache_data(ttl=60): an entry older than the ttl is dropped
CacheExpire ==
  /\ expiries < MaxExpiries
  /\ \E k \in DOMAIN cache :
       cache' = [j \in DOMAIN cache \ {k} |-> cache[j]]
  /\ expiries' = expiries + 1
  /\ UNCHANGED <<storeVars, now, sessVars, histVars, queryVars, bootVars>>

\* a document leaves the shared collection (nothing in app.py removes one;
\* the detail view's "Ticket not found." branch is for this case)
ExternalDelete ==
  /\ deletes < MaxDeletes
  /\ \E t \in Ids :
       /\ store[t].present
       /\ store' = [store EXCEPT ![t] = NoTicket]
  /\ deletes' = deletes + 1
  /\ UNCHANGED <<updates, cache, expiries, now, sessVars, histVars, queryVars, bootVars>>

(* ---------------------------- script runs ------------------------------ *)
\* where one script run leaves session s
Land(s, v, sel, pg, scr, sh, p) ==
  /\ view' = [view EXCEPT ![s] = v]
  /\ selected' = [selected EXCEPT ![s] = sel]
  /\ page' = [page EXCEPT ![s] = pg]
  /\ screen' = [screen EXCEPT ![s] = scr]
  /\ shown' = [shown EXCEPT ![s] = sh]
  /\ pc' = [pc EXCEPT ![s] = p]

\* the store call of the run of session s ended as o: "none" (it returned, or
\* the run made none), "find_raised", "not_found" or "write_raised"
Outcome(s, o) == fault' = [fault EXCEPT ![s] = o]

\* def reset_page(): st.session_state.page = 0
reset_page(pg) == 0

\* Widgets a script run does not render lose their value: the two filter
\* select boxes exist only inside show_dashboard and come back with their
\* first option.
WidgetDefault(s, f) == [f EXCEPT ![s] = "All"]

\* show_dashboard for session s: pg, sf, af are the page and the filter
\* values the run reads; ev is the widget event that triggered the run.
show_dashboard(s, pg, sf, af, ev, idx) ==
  /\ fstatus' = [fstatus EXCEPT ![s] = sf]
  /\ fassignee' = [fassignee EXCEPT ![s] = af]
  /\ Outcome(s, "none")
  /\ IF pg = NoPage
       THEN \* st.session_state.page is read before it was ever assigned:
            \* AttributeError, after the sidebar filters were rendered
            /\ Land(s, view[s], selected[s], pg, "crash", NoShown, "idle")
            /\ UNCHANGED <<cache, lastQ>>
       ELSE \E fresh \in FreshResults(store, pg, PAGE_SIZE, sf, af) :
              LET key == <<pg, PAGE_SIZE, sf, af>>
                  r == IF key \in DOMAIN cache THEN cache[key] ELSE fresh
                  pages == total_pages(r.total)
              IN /\ cache' = IF key \in DOMAIN cache THEN cache ELSE (key :> fresh) @@ cache
                 /\ lastQ' = [lastQ EXCEPT ![s] =
                               [any |-> TRUE, page |-> pg, status |-> sf, assignee |-> af]]
                 /\ IF r.rows = <<>>
                      THEN Land(s, view[s], selected[s], pg, "empty", NoShown, "idle")
                    ELSE IF ev = "select"
                      THEN IF idx <= Len(r.rows)
                             THEN Land(s, "detail", r.rows[idx]._id, pg, "rerun", NoShown, "rerun")
                             ELSE Land(s, view[s], selected[s], pg, "crash", NoShown, "idle")
                    ELSE IF ev = "prev" /\ pg > 0
                      THEN Land(s, view[s], selected[s], pg - 1, "rerun", NoShown, "rerun")
                    ELSE IF ev = "next" /\ pg < pages - 1
                      THEN Land(s, view[s], selected[s], pg + 1, "rerun", NoShown, "rerun")
                    ELSE Land(s, view[s], selected[s], pg, "list",
                              [rows |-> Len(r.rows), pages |-> pages], "idle")

\* authenticator.login() succeeds; the script goes on into the dashboard
Login(s) ==
  /\ auth[s] # "True" /\ pc[s] = "idle"
  /\ auth' = [auth EXCEPT ![s] = "True"]
  /\ show_dashboard(s, page[s], fstatus[s], fassignee[s], "none", 0)
  /\ UNCHANGED <<storeVars, now, expiries, cur, lastW, orig, log, raced, queryVars>>

\* authenticator.login() rejects the credentials: no view is rendered
LoginFail(s) ==
  /\ auth[s] = None /\ pc[s] = "idle"
  /\ auth' = [auth EXCEPT ![s] = "False"]
  /\ UNCHANGED <<storeVars, cache, now, expiries, view, selected, page, fstatus, fassignee,
                 screen, shown, pc, cur, fault, histVars, queryVars>>

OnDashboard(s) ==
  auth[s] = "True" /\ view[s] = "dashboard" /\ pc[s] = "idle"

\* one of the two filter select boxes gets a new value: on_change=reset_page
\* runs first, then the script
ChangeFilter(s, inp) ==
  /\ OnDashboard(s) /\ screen[s] \in {"crash", "empty", "list"}
  /\ \E sf \in inp.sf, af \in inp.af :
       /\ (sf # fstatus[s]) # (af # fassignee[s])
       /\ show_dashboard(s, reset_page(page[s]), sf, af, "none", 0)
  /\ UNCHANGED <<storeVars, now, expiries, auth, cur, lastW, orig, log, raced, queryVars>>

\* a row of the data frame is selected (on_select="rerun")
SelectRow(s) ==
  /\ OnDashboard(s) /\ screen[s] = "list"
  /\ \E idx \in 1..shown[s].rows :
       show_dashboard(s, page[s], fstatus[s], fassignee[s], "select", idx)
  /\ UNCHANGED <<storeVars, now, expiries, auth, cur, lastW, orig, log, raced, queryVars>>

\* "Previous Page" is on the screen only while page > 0
PrevPage(s) ==
  /\ OnDashboard(s) /\ screen[s] = "list" /\ page[s] > 0
  /\ show_dashboard(s, page[s], fstatus[s], fassignee[s], "prev", 0)
  /\ UNCHANGED <<storeVars, now, expiries, auth, cur, lastW, orig, log, raced, queryVars>>

\* "Next Page" is on the screen only while page < total_pages - 1
NextPage(s) ==
  /\ OnDashboard(s) /\ screen[s] = "list" /\ page[s] < shown[s].pages - 1
  /\ show_dashboard(s, page[s], fstatus[s], fassignee[s], "next", 0)
  /\ UNCHANGED <<storeVars, now, expiries, auth, cur, lastW, orig, log, raced, queryVars>>

(* ----------------------------- detail view ----------------------------- *)
\* the default of the read-only "Status" metric (line 251) used for the form
CurrentStatusNA(doc) == IF doc.status = Absent THEN "N/A" ELSE doc.status

\* current_status = current_ticket.get("status", "New")
current_status(doc) == IF doc.status = Absent THEN "New" ELSE doc.status

\* status_options: the four canonical values, plus the current one if it is
\* none of them
status_options(doc) ==
  IF Contains(CanonicalStatus, current_status(doc))
    THEN CanonicalStatus
    ELSE Append(CanonicalStatus, current_status(doc))

\* assignee_options = ["Unassigned"] + staff_list
assignee_options == <<"Unassigned">> \o staff_name_list

\* the option the status select box shows first (status_index)
DefaultStatus(doc) ==
  status_options(doc)[IndexOf(status_options(doc), current_status(doc))]

\* assignee_index: the current assignee, "Unassigned" if it is falsy, the
\* first option if it is not in the list (ValueError)
DefaultAssignee(doc) ==
  LET wanted == IF doc.assigned_to \in {None, "", Absent}
                  THEN "Unassigned" ELSE doc.assigned_to
  IN IF Contains(assignee_options, wanted) THEN wanted ELSE assignee_options[1]

\* get_all_tickets is a local name of show_dashboard (line 123); inside
\* show_ticket_detail (line 317) the name does not resolve: NameError
ClearResolves == FALSE

InDetail(s) == auth[s] = "True" /\ view[s] = "detail"

\* show_ticket_detail up to the form, with no button pressed
show_ticket_detail(s) ==
  /\ fstatus' = WidgetDefault(s, fstatus)
  /\ fassignee' = WidgetDefault(s, fassignee)
  /\ \E ok \in BOOLEAN :
       LET current_ticket == find_one(store, ObjectId(selected[s]))
       IN IF ~ok
            THEN /\ Outcome(s, "find_raised")
                 /\ Land(s, view[s], selected[s], page[s], "finderr", NoShown, "idle")
          ELSE IF ~current_ticket.present
            THEN /\ Outcome(s, "not_found")
                 /\ Land(s, view[s], selected[s], page[s], "notfound", NoShown, "idle")
          ELSE /\ Outcome(s, "none")
               /\ Land(s, view[s], selected[s], page[s], "form", NoShown, "idle")
  /\ UNCHANGED <<cache, cur, lastQ>>

\* the script run that st.rerun() asked for
Rerun(s) ==
  /\ auth[s] = "True" /\ pc[s] = "rerun"
  /\ IF view[s] = "dashboard"
       THEN show_dashboard(s, page[s], fstatus[s], fassignee[s], "none", 0) /\ cur' = cur
       ELSE show_ticket_detail(s)
  /\ UNCHANGED <<storeVars, now, expiries, auth, lastW, orig, log, raced, queryVars>>

\* a way back that sets the view and leaves selected_ticket_id
BackKeepsSelection(s) ==
  /\ InDetail(s) /\ pc[s] = "idle"
  /\ Land(s, "dashboard", selected[s], page[s], "rerun", NoShown, "rerun")
  /\ Outcome(s, "none")
  /\ fstatus' = WidgetDefault(s, fstatus)
  /\ fassignee' = WidgetDefault(s, fassignee)
  /\ UNCHANGED <<storeVars, cache, now, expiries, auth, cur, histVars, queryVars>>

\* "Back to Dashboard"
Back(s) ==
  /\ InDetail(s) /\ pc[s] = "idle"
  /\ Land(s, "dashboard", None, page[s], "rerun", NoShown, "rerun")
  /\ Outcome(s, "none")
  /\ fstatus' = WidgetDefault(s, fstatus)
  /\ fassignee' = WidgetDefault(s, fassignee)
  /\ UNCHANGED <<storeVars, cache, now, expiries, auth, cur, histVars, queryVars>>

\* "Save Changes" is pressed: the run reads the ticket again (find_one)
SubmitRead(s) ==
  /\ InDetail(s) /\ pc[s] = "idle" /\ screen[s] \in {"form", "saved", "writeerr"}
  /\ \E ok \in BOOLEAN :
       LET current_ticket == find_one(store, ObjectId(selected[s]))
       IN IF ~ok
            THEN /\ Outcome(s, "find_raised")
                 /\ Land(s, view[s], selected[s], page[s], "finderr", NoShown, "idle")
                 /\ cur' = cur
          ELSE IF ~current_ticket.present
            THEN /\ Outcome(s, "not_found")
                 /\ Land(s, view[s], selected[s], page[s], "notfound", NoShown, "idle")
                 /\ cur' = cur
          ELSE /\ Outcome(s, "none")
               /\ Land(s, view[s], selected[s], page[s], "form", NoShown, "submit")
               /\ cur' = [cur EXCEPT ![s] = current_ticket]
  /\ fstatus' = WidgetDefault(s, fstatus)
  /\ fassignee' = WidgetDefault(s, fassignee)
  /\ UNCHANGED <<storeVars, cache, now, expiries, auth, histVars, queryVars>>

\* a handler that treats a write that raised like one that returned: back
\* to the list
UpdateFailedLeavesDetail(s) ==
  /\ Land(s, "dashboard", None, page[s], "rerun", NoShown, "rerun")
  /\ UNCHANGED <<store, updates, cache, lastW, log, raced>>

\* except Exception: st.error("Failed to update ticket"); nothing was
\* written, the view and the form stay
update_failed(s) ==
  /\ Land(s, view[s], selected[s], page[s], "writeerr", NoShown, "idle")
  /\ UNCHANGED <<store, updates, cache, lastW, log, raced>>

\* ... and writes it (update_one), reports, and clears the query cache
SubmitWrite(s, inp) ==
  /\ InDetail(s) /\ pc[s] = "submit"
  /\ updates < MaxUpdates
  /\ \E new_status \in SeqToSet(status_options(cur[s])),
        new_assignee \in SeqToSet(assignee_options),
        new_notes \in inp.notes,
        ok \in BOOLEAN :
       LET current_notes == cur[s].internal_notes
           t == ObjectId(selected[s])
           assignee == final_assignee(new_assignee)
           notes == final_notes(SessionName(s), now, new_notes, current_notes)
           matched == store[t].present
       IN /\ new_status \in inp.status \cup {DefaultStatus(cur[s])}
          /\ new_assignee \in inp.assignee \cup {DefaultAssignee(cur[s])}
          /\ IF ~ok
               THEN Outcome(s, "write_raised") /\ update_failed(s)
               ELSE /\ store' = update_one(store, t, new_status, assignee, notes)
                    /\ Outcome(s, "none")
                    /\ updates' = updates + 1
                    /\ lastW' = IF matched
                                  THEN [lastW EXCEPT ![t] =
                                         [any |-> TRUE, status |-> new_status,
                                          assigned_to |-> assignee,
                                          internal_notes |-> notes,
                                          note |-> new_notes,
                                          read |-> current_notes,
                                          before |-> store[t].internal_notes]]
                                  ELSE lastW
                    /\ log' = IF matched /\ Strip(new_notes) # <<>>
                                THEN [log EXCEPT ![t] =
                                       Append(@, [by |-> SessionName(s), at |-> now,
                                                  text |-> new_notes])]
                                ELSE log
                    /\ raced' = [raced EXCEPT ![t] =
                                  @ \/ \E o \in Sessions \ {s} :
                                         pc[o] = "submit" /\ selected[o] = selected[s]]
                    /\ IF ClearResolves
                         THEN \* get_all_tickets.clear(); back to the list; st.rerun()
                              /\ cache' = EmptyCache
                              /\ Land(s, "dashboard", None, page[s], "rerun", NoShown, "rerun")
                         ELSE \* st.success, then the NameError lands in the
                              \* except branch: st.error, the view stays
                              /\ cache' = cache
                              /\ Land(s, view[s], selected[s], page[s], "saved", NoShown, "idle")
  /\ cur' = [cur EXCEPT ![s] = NoTicket]
  /\ UNCHANGED <<deletes, now, expiries, auth, fstatus, fassignee, lastQ, orig, queryVars>>

(* --------------------------- specification ---------------------------- *)
Session(s, inp) ==
  \/ Login(s) /\ UNCHANGED bootVars
  \/ LoginFail(s) /\ UNCHANGED bootVars
  \/ ChangeFilter(s, inp) /\ UNCHANGED bootVars
  \/ SelectRow(s) /\ UNCHANGED bootVars
  \/ PrevPage(s) /\ UNCHANGED bootVars
  \/ NextPage(s) /\ UNCHANGED bootVars
  \/ Rerun(s) /\ UNCHANGED bootVars
  \/ Back(s) /\ UNCHANGED bootVars
  \/ SubmitRead(s) /\ UNCHANGED bootVars
  \/ SubmitWrite(s, inp) /\ UNCHANGED bootVars

\* one staff member at the dashboard and the detail view, over a store and a
\* cache that change under them
Next ==
  \/ CacheExpire
  \/ ExternalDelete
  \/ \E s \in UiInputs.sessions : Session(s, UiInputs)

Spec == Init /\ [][Next]_vars

\* staff members editing the same tickets at the same time
NotesSession(s, inp) ==
  \/ Login(s) /\ UNCHANGED bootVars
  \/ ChangeFilter(s, inp) /\ UNCHANGED bootVars
  \/ SelectRow(s) /\ UNCHANGED bootVars
  \/ Rerun(s) /\ UNCHANGED bootVars
  \/ Back(s) /\ UNCHANGED bootVars
  \/ SubmitRead(s) /\ UNCHANGED bootVars
  \/ SubmitWrite(s, inp) /\ UNCHANGED bootVars

NotesNext ==
  \/ Tick
  \/ \E s \in NotesInputs.sessions : NotesSession(s, NotesInputs)

NotesSpec == NotesInit /\ [][NotesNext]_vars

\* one staff member working through the tickets with the update form
FormSession(s, inp) ==
  \/ Login(s) /\ UNCHANGED bootVars
  \/ ChangeFilter(s, inp) /\ UNCHANGED bootVars
  \/ SelectRow(s) /\ UNCHANGED bootVars
  \/ NextPage(s) /\ UNCHANGED bootVars
  \/ Rerun(s) /\ UNCHANGED bootVars
  \/ Back(s) /\ UNCHANGED bootVars
  \/ SubmitRead(s) /\ UNCHANGED bootVars
  \/ SubmitWrite(s, inp) /\ UNCHANGED bootVars

FormNext == \E s \in FormInputs.sessions : FormSession(s, FormInputs)

FormSpec == FormInit /\ [][FormNext]_vars

(* ------------------------------- startup ------------------------------ *)
\* init_connection(): None without MONGO_URI or when the ping raises
init_connection(u, r) == IF ~u THEN "none" ELSE IF ~r THEN "none" ELSE "ok"

\* fetch_all_users(): the documents of staff_collection, [] when find raises
fetch_all_users(dir, ok) == IF ok THEN dir ELSE <<>>

NoUsers == [set |-> FALSE, users |-> <<>>]

\* a startup that goes on into the views with an empty staff directory
StartupIgnoresDirectory(c, us) == IF c = "none" THEN "halt" ELSE "pass"

\* if client is None: st.stop() ... if not users: st.error(...); st.stop()
Startup(c, us) ==
  IF c = "none" THEN "halt" ELSE IF us = <<>> THEN "halt" ELSE "pass"

\* client = init_connection() through st.cache_resource
RunClient == IF client = "unset" THEN init_connection(uri, reach) ELSE client

\* users = fetch_all_users() through st.cache_data; not reached without a client
RunUsers(ok) ==
  IF RunClient = "none" \/ fetched.set
    THEN fetched
    ELSE [set |-> TRUE, users |-> fetch_all_users(directory, ok)]

\* the top of a script run (lines 36-70): both caches after it
Top(ok) ==
  /\ client' = RunClient
  /\ fetched' = RunUsers(ok)
  /\ UNCHANGED <<uri, reach, directory>>

Passes(ok) == Startup(RunClient, RunUsers(ok).users) = "pass"

\* st.stop() at the top of the run: only the error is on the screen
Halt(s) ==
  /\ pc[s] # "submit"
  /\ Land(s, view[s], selected[s], page[s], "halted", NoShown, "idle")
  /\ Outcome(s, "none")
  /\ fstatus' = WidgetDefault(s, fstatus)
  /\ fassignee' = WidgetDefault(s, fassignee)
  /\ UNCHANGED <<storeVars, cache, now, expiries, auth, cur, histVars, queryVars>>

\* the page is loaded again after a halt: a new session, whose state is
\* initialised by lines 99-107 and which gets the login form
NewSession(s) ==
  /\ screen[s] = "halted"
  /\ auth' = [auth EXCEPT ![s] = None]
  /\ Land(s, "dashboard", None, NoPage, "login", NoShown, "idle")
  /\ Outcome(s, "none")
  /\ fstatus' = WidgetDefault(s, fstatus)
  /\ fassignee' = WidgetDefault(s, fassignee)
  /\ UNCHANGED <<storeVars, cache, now, expiries, cur, histVars, queryVars>>

\* @st.cache_data(ttl=600) of fetch_all_users runs out (between runs)
UsersExpire ==
  /\ fetched.set
  /\ \A s \in Sessions : pc[s] # "submit"
  /\ fetched' = NoUsers
  /\ UNCHANGED <<uri, reach, directory, client>>
  /\ UNCHANGED <<storeVars, cache, now, expiries, sessVars, histVars, queryVars>>

\* the staff accounts are removed from, or put back into, staff_collection
DirectoryChange ==
  /\ directory' = IF directory = <<>> THEN users ELSE <<>>
  /\ UNCHANGED <<uri, reach, client, fetched>>
  /\ UNCHANGED <<storeVars, cache, now, expiries, sessVars, histVars, queryVars>>

BootInputs ==
  [sessions |-> {1},
   sf |-> {"All", "Closed"}, af |-> {"All"},
   status |-> {"New"}, assignee |-> {"Unassigned"},
   notes |-> {<<Ch("a")>>}]

\* nothing is cached yet; the environment is any
BootInit ==
  /\ InitWith(NotesTickets)
  /\ uri \in BOOLEAN
  /\ reach \in BOOLEAN
  /\ directory \in {<<>>, users}
  /\ client = "unset"
  /\ fetched = NoUsers
  /\ qstore = [t \in {} |-> NoTicket] /\ walk = NoWalk

\* a script run from its top; the write of a save is the rest of the run that
\* read the ticket
BootSession(s, inp) ==
  \/ \E ok \in BOOLEAN : Top(ok) /\ ~Passes(ok) /\ Halt(s)
  \/ \E ok \in BOOLEAN : Top(ok) /\ Passes(ok) /\ NewSession(s)
  \/ \E ok \in BOOLEAN : Top(ok) /\ Passes(ok) /\ Login(s)
  \/ \E ok \in BOOLEAN : Top(ok) /\ Passes(ok) /\ LoginFail(s)
  \/ \E ok \in BOOLEAN : Top(ok) /\ Passes(ok) /\ ChangeFilter(s, inp)
  \/ \E ok \in BOOLEAN : Top(ok) /\ Passes(ok) /\ SelectRow(s)
  \/ \E ok \in BOOLEAN : Top(ok) /\ Passes(ok) /\ Rerun(s)
  \/ \E ok \in BOOLEAN : Top(ok) /\ Passes(ok) /\ Back(s)
  \/ \E ok \in BOOLEAN : Top(ok) /\ Passes(ok) /\ SubmitRead(s)
  \/ SubmitWrite(s, inp) /\ UNCHANGED bootVars

BootNext ==
  \/ UsersExpire
  \/ DirectoryChange
  \/ \E s \in BootInputs.sessions : BootSession(s, BootInputs)

BootSpec == BootInit /\ [][BootNext]_vars

\* get_all_tickets applied once to qstore, for any arguments
ApplyQuery ==
  /\ ~qres.any
  /\ \E page_number \in 0..QTickets, page_size \in 1..MaxPageSize,
     status_filter \in {"All", "New"},
     assignee_filter \in {"All", "Unassigned", "Kirk"},
     ok \in BOOLEAN :
      \E ord \in SortedOrders(qstore, BuildQuery(status_filter, assignee_filter)) :
        LET r == get_all_tickets(qstore, ord, ok, page_number, page_size,
                                 status_filter, assignee_filter)
        IN /\ qres' = [any |-> TRUE, ok |-> ok, ord |-> ord, page |-> page_number,
                       size |-> page_size, status |-> status_filter,
                       assignee |-> assignee_filter, rows |-> r.rows, total |-> r.total]
           /\ UNCHANGED <<storeVars, cache, now, expiries, sessVars, histVars, qstore,
                          walk, bootVars>>

QuerySpec == QueryInit /\ [][ApplyQuery]_vars

\* the next page of the walk: get_all_tickets(Len(pages), PAGE_SIZE, filters)
\* on the unchanged collection; the walk ends after total_pages pages
FetchPage ==
  /\ walk.pages = <<>> \/ Len(walk.pages) < total_pages(walk.total)
  /\ \E ord \in SortedOrders(qstore, BuildQuery(walk.status, walk.assignee)) :
       LET r == get_all_tickets(qstore, ord, TRUE, Len(walk.pages), PAGE_SIZE,
                                walk.status, walk.assignee)
       IN /\ r.rows # <<>>
          /\ walk' = [walk EXCEPT !.total = r.total,
                                   !.pages = Append(@, [i \in 1..Len(r.rows) |-> r.rows[i]._id])]
  /\ UNCHANGED <<storeVars, cache, now, expiries, sessVars, histVars, qstore, qres, bootVars>>

WalkSpec == WalkInit /\ [][FetchPage]_vars

(* ------------------------------ properties ---------------------------- *)
\* the step is the end of a save of session s whose update_one did not raise
SaveWritten(s) ==
  pc[s] = "submit" /\ pc'[s] # "submit" /\ updates' = updates + 1

\* the screens that report a failure of the detail view
FailScreens == {"finderr", "notfound", "writeerr"}

\* the step is a run of session s
Ran(s) ==
  pc[s] # "idle" \/ pc'[s] # pc[s] \/ screen'[s] # screen[s] \/ fault'[s] # fault[s]

\* C1: a save whose store write succeeded ends with the session on the
\* dashboard and no ticket selected.
C1_SaveReturnsToDashboard ==
  [][\A s \in Sessions :
       SaveWritten(s) => view'[s] = "dashboard" /\ selected'[s] = None]_vars

\* the filtered set of a cached argument tuple contains document doc
InFilteredSet(doc, key) == MongoMatch(doc, BuildQuery(key[3], key[4]))

\* C2: an update that changes a ticket leaves no cached query result whose
\* filtered set contained that ticket, so the next call with those arguments
\* is computed from the store after the update.
C2_UpdateInvalidatesCache ==
  [][\A s \in Sessions : \A t \in Ids :
       (SaveWritten(s) /\ store'[t] # store[t]) =>
         \A key \in DOMAIN cache' : ~InFilteredSet(store[t], key)]_vars

\* C3 (as claimed): at every write, the internal_notes stored immediately
\* before it is a suffix of the internal_notes stored after it.
C3_NotesAppendOnly ==
  \A t \in Ids :
    (lastW[t].any /\ store[t].present) =>
      IsSuffix(lastW[t].before, store[t].internal_notes)

\* C3 (amended): at every write, the internal_notes the writing run read
\* from the ticket is a suffix of the internal_notes stored after it; the
\* value stored immediately before the write is one whenever it still is the
\* value that was read.
C3_NotesAppendToWhatWasRead ==
  \A t \in Ids :
    (lastW[t].any /\ store[t].present) =>
      /\ IsSuffix(lastW[t].read, store[t].internal_notes)
      /\ lastW[t].read = lastW[t].before =>
           IsSuffix(lastW[t].before, store[t].internal_notes)

\* two saves read the same ticket, both wrote a note, and the later write
\* dropped the earlier note
C3_Witness ==
  \E t \in Ids :
    /\ raced[t] /\ Len(log[t]) = 2 /\ lastW[t].any
    /\ lastW[t].read # lastW[t].before

\* C4: the stored (status, assigned_to, internal_notes) of a ticket is the
\* triple of the update_one that ran last on it, whole.
C4_LastWriteWins ==
  \A t \in Ids :
    (lastW[t].any /\ store[t].present) =>
      /\ store[t].status = lastW[t].status
      /\ store[t].assigned_to = lastW[t].assigned_to
      /\ store[t].internal_notes = lastW[t].internal_notes

\* two overlapping saves of one ticket, the later one written from a stale read
C4_Witness ==
  \E t \in Ids :
    /\ raced[t] /\ updates = 2 /\ lastW[t].any
    /\ lastW[t].read # lastW[t].before
    /\ store[t].status # "Closed" /\ store[t].assigned_to # None

\* C5: an update with empty or whitespace-only note text, not overlapping
\* another update of the ticket, leaves internal_notes as it was stored
\* immediately before, and the value it read is what it stores in any case.
C5_BlankNoteKeepsNotes ==
  \A t \in Ids :
    (lastW[t].any /\ store[t].present /\ Strip(lastW[t].note) = <<>>) =>
      /\ store[t].internal_notes = lastW[t].read
      /\ ~raced[t] => store[t].internal_notes = lastW[t].before

\* a whitespace-only note was saved on a ticket that already had a block
C5_Witness ==
  \E t \in Ids :
    /\ lastW[t].any /\ ~raced[t]
    /\ lastW[t].note = <<Ch(" ")>>
    /\ Len(log[t]) = 1

\* block(n): the header with author and time, the raw text, a blank line
Block(b) == <<Hdr(b.by, b.at)>> \o b.text \o <<Ch("\n"), Ch("\n")>>

RECURSIVE NewestFirst(_)
NewestFirst(blocks) ==
  IF blocks = <<>> THEN <<>>
  ELSE Block(blocks[Len(blocks)]) \o NewestFirst(SubSeq(blocks, 1, Len(blocks) - 1))

\* C6: after updates with non-empty notes n1..nk made one after the other,
\* internal_notes is block(nk) ... block(n1) followed by the original notes.
C6_BlocksNewestFirst ==
  \A t \in Ids :
    (store[t].present /\ ~raced[t]) =>
      store[t].internal_notes = NewestFirst(log[t]) \o orig[t]

\* two notes by different authors on a ticket that had notes before
C6_Witness ==
  \E t \in Ids :
    /\ ~raced[t] /\ Len(log[t]) = 2 /\ orig[t] # <<>>
    /\ log[t][1].by # log[t][2].by /\ log[t][1].at # log[t][2].at

\* the documents of coll a filter pair selects, stated on the fields
FilterSet(coll, status_filter, assignee_filter) ==
  {t \in DOMAIN coll :
     /\ coll[t].present
     /\ status_filter = "All" \/ coll[t].status = status_filter
     /\ \/ assignee_filter = "All"
        \/ assignee_filter = "Unassigned" /\ coll[t].assigned_to \in {None, "", Absent}
        \/ assignee_filter \notin {"All", "Unassigned"} /\ coll[t].assigned_to = assignee_filter}

\* C7: get_all_tickets returns the number of matching tickets as total,
\* whatever the page, and as page the slice of the matching tickets in
\* created_at-descending order; total is 0 only if nothing matches.
C7_TotalAndSlice ==
  (qres.any /\ qres.ok) =>
    LET M == FilterSet(qstore, qres.status, qres.assignee)
        lo == qres.page * qres.size
    IN /\ qres.total = Cardinality(M)
       /\ Len(qres.rows) = Min(qres.size, IF Cardinality(M) > lo THEN Cardinality(M) - lo ELSE 0)
       /\ \A i \in 1..Len(qres.rows) : qres.rows[i]._id = OidStr(qres.ord[lo + i])
       /\ qres.total = 0 => M = {}

\* C8: the filter pair selects by exact status and exact assignee, "All"
\* selects everything, "Unassigned" selects null, empty and absent
\* assigned_to; unassigned and assigned tickets add up to the collection.
C8_FilterSemantics ==
  /\ \A sf \in SeqToSet(FilterStatusOptions), af \in SeqToSet(FilterAssigneeOptions) :
       /\ Matching(qstore, BuildQuery(sf, af)) = FilterSet(qstore, sf, af)
       /\ count_documents(qstore, BuildQuery(sf, af)) = Cardinality(FilterSet(qstore, sf, af))
  /\ count_documents(qstore, BuildQuery("All", "Unassigned"))
       + Cardinality({t \in DOMAIN qstore : qstore[t].assigned_to \notin {None, "", Absent}})
     = count_documents(qstore, BuildQuery("All", "All"))
  /\ count_documents(qstore, BuildQuery("All", "All")) = Cardinality(DOMAIN qstore)
  /\ (qres.any /\ qres.ok /\ qres.rows # <<>>) =>
       /\ qres.total = Cardinality(FilterSet(qstore, qres.status, qres.assignee))
       /\ \A i \in 1..Len(qres.rows) :
            ObjectId(qres.rows[i]._id) \in FilterSet(qstore, qres.status, qres.assignee)

\* "Unassigned" applied to a collection with a null, an empty and an absent
\* assigned_to
C8_Witness ==
  /\ qres.any /\ qres.ok /\ qres.assignee = "Unassigned" /\ qres.status = "All"
  /\ qres.total = 3
  /\ {qstore[t].assigned_to : t \in DOMAIN qstore} = {None, "", Absent}

\* C9: a query whose filter pair differs from the one of the session's
\* previous query is made with page 0.
C9_FilterChangeResetsPage ==
  [][\A s \in Sessions :
       (/\ lastQ[s].any /\ lastQ'[s] # lastQ[s]
        /\ \/ lastQ'[s].status # lastQ[s].status
           \/ lastQ'[s].assignee # lastQ[s].assignee)
       => lastQ'[s].page = 0]_vars

\* C10: a run of the detail view in which the selected id does not resolve
\* (find_one raises or returns nothing) or update_one raises reports the
\* failure, changes no ticket, keeps the view and the selected ticket, and
\* reports no success.
C10_FailureChangesNothing ==
  [][\A s \in Sessions :
       (fault'[s] # "none" /\ Ran(s)) =>
         /\ store' = store /\ updates' = updates
         /\ view[s] = "detail" /\ view'[s] = "detail"
         /\ selected[s] # None /\ selected'[s] = selected[s]
         /\ pc'[s] = "idle" /\ screen'[s] \in FailScreens
         /\ screen'[s] # "saved"]_vars

\* update_one raised after an earlier save of the session went through
C10_Witness ==
  \E s \in Sessions :
    /\ fault[s] = "write_raised" /\ screen[s] = "writeerr"
    /\ view[s] = "detail" /\ updates > 0

\* C11: every status a save writes is one of the four canonical values or
\* the non-canonical status the run read from the ticket; the form of a save
\* in progress offers every canonical value whatever the current one is.
C11_StatusWritten ==
  [][\A s \in Sessions :
       /\ pc[s] = "submit" =>
            SeqToSet(CanonicalStatus) \subseteq SeqToSet(status_options(cur[s]))
       /\ (SaveWritten(s) /\ store[ObjectId(selected[s])].present) =>
            LET written == store'[ObjectId(selected[s])].status
            IN \/ written \in SeqToSet(CanonicalStatus)
               \/ written = cur[s].status /\ written # Absent]_vars

\* one save took ticket 1 from Closed straight to New, another kept the
\* legacy status of ticket 2
C11_Witness ==
  /\ updates = 2
  /\ lastW[1].any /\ lastW[1].status = "New"
  /\ lastW[2].any /\ lastW[2].status = "Legacy"

\* C12: every assigned_to a save writes is null or a name of the staff name
\* list, never the string "Unassigned"; the selection "Unassigned" is stored
\* as null and every other selection as it is.
C12_AssigneeWritten ==
  [][\A s \in Sessions :
       /\ \A a \in SeqToSet(assignee_options) :
            final_assignee(a) = IF a = "Unassigned" THEN None ELSE a
       /\ (SaveWritten(s) /\ store[ObjectId(selected[s])].present) =>
            LET written == store'[ObjectId(selected[s])].assigned_to
            IN /\ written \in {None} \cup SeqToSet(staff_name_list)
               /\ written # "Unassigned"]_vars

\* one ticket was saved as unassigned, the other with a staff member
C12_Witness ==
  \E t, u \in Ids :
    /\ lastW[t].any /\ lastW[t].assigned_to = None /\ store[t].assigned_to = None
    /\ lastW[u].any /\ lastW[u].assigned_to = "Kirk" /\ store[u].assigned_to = "Kirk"

\* the screens of the dashboard and of the detail view
ViewScreens ==
  {"list", "empty", "crash", "rerun", "form", "finderr", "notfound",
   "writeerr", "saved"}

\* the step is a script run of session s that changed something of it
Acts(s) ==
  <<auth[s], view[s], selected[s], page[s], screen[s], pc[s], cur[s],
    fault[s], lastQ[s]>>' #
  <<auth[s], view[s], selected[s], page[s], screen[s], pc[s], cur[s],
    fault[s], lastQ[s]>>

\* the connection is there, the directory fetch gave an account, and the
\* session is authenticated
Gate(s) ==
  /\ client = "ok"
  /\ fetched.set /\ fetched.users # <<>>
  /\ auth[s] = "True"

\* C13: a run renders a view, queries or writes tickets only with the
\* connection established, a non-empty staff directory fetched and the session
\* authenticated; a run that starts without a connection or with an empty
\* directory halts with no view, no query and no write.
C13_ViewsBehindStartup ==
  [][/\ \A s \in Sessions :
          (Acts(s) /\ screen'[s] \in ViewScreens) => Gate(s)'
     /\ (cache' # cache \/ lastQ' # lastQ \/ store' # store \/ updates' # updates) =>
          \E s \in Sessions : Acts(s) /\ Gate(s)'
     /\ \A s \in Sessions :
          (/\ Acts(s) /\ pc[s] # "submit"
           /\ client' = "none" \/ (fetched'.set /\ fetched'.users = <<>>)) =>
            /\ screen'[s] = "halted"
            /\ cache' = cache /\ lastQ' = lastQ /\ store' = store]_vars

\* an authenticated session, with the connection up, halted by a staff
\* directory that came back empty
C13_Witness ==
  \E s \in Sessions :
    /\ screen[s] = "halted" /\ auth[s] = "True" /\ lastQ[s].any
    /\ client = "ok" /\ fetched.set /\ fetched.users = <<>>

\* the walk has fetched every page 0 .. total_pages - 1
WalkDone == walk.pages # <<>> /\ Len(walk.pages) = total_pages(walk.total)

\* the places of the walk where ticket t is shown
Shown(t) ==
  {pi \in (1..Len(walk.pages)) \X (1..PAGE_SIZE) :
     pi[2] <= Len(walk.pages[pi[1]]) /\ walk.pages[pi[1]][pi[2]] = OidStr(t)}

\* C14: a walk over pages 0 .. total_pages - 1 with fixed filters on an
\* unchanged collection shows every matching ticket on exactly one page,
\* tickets with equal created_at included.
C14_WalkCoversOnce ==
  WalkDone =>
    \A t \in FilterSet(qstore, walk.status, walk.assignee) : Cardinality(Shown(t)) = 1

\* view is one of the two views, and it is the detail view exactly when a
\* ticket is selected
ViewMatchesSelection(s) ==
  /\ view[s] \in {"dashboard", "detail"}
  /\ (view[s] = "detail") <=> (selected[s] # None)

\* the ids of the rows the session's dashboard run got from get_all_tickets
RowIds(s) ==
  LET key == <<page[s], PAGE_SIZE, fstatus[s], fassignee[s]>>
  IN IF key \in DOMAIN cache
       THEN {cache[key].rows[i]._id : i \in 1..Len(cache[key].rows)}
       ELSE {}

\* C15: view is dashboard or detail, and detail exactly when
\* selected_ticket_id is set; no run changes one of the two without the
\* other; selecting a row gives (detail, an id of a row of the page), Back
\* gives (dashboard, None).
C15_ViewAndSelection ==
  [][\A s \in Sessions :
       /\ ViewMatchesSelection(s) /\ ViewMatchesSelection(s)'
       /\ (view'[s] # view[s]) <=> (selected'[s] # selected[s])
       /\ (view[s] = "dashboard" /\ view'[s] = "detail") => selected'[s] \in RowIds(s)'
       /\ (view[s] = "detail" /\ view'[s] = "dashboard") => selected'[s] = None]_vars

\* back on the dashboard after a visit to the detail view of a ticket that
\* was saved there
C15_Witness ==
  \E s \in Sessions :
    /\ view[s] = "dashboard" /\ selected[s] = None
    /\ updates > 0 /\ screen[s] = "list"

\* the tickets that match the filters the session's dashboard shows
MatchingNow(s) == count_documents(store, BuildQuery(fstatus[s], fassignee[s]))

\* the session is looking at a dashboard run's result
AtDashboard(s) ==
  /\ auth[s] = "True" /\ view[s] = "dashboard" /\ pc[s] = "idle"
  /\ screen[s] \in {"list", "empty", "crash"}

\* C16: on the dashboard page >= 0, and while tickets match the filters
\* page < ceil(matching / PAGE_SIZE) and the "no tickets found" result is not
\* what the dashboard shows.
C16_PageExists ==
  \A s \in Sessions :
    AtDashboard(s) =>
      /\ page[s] # NoPage /\ page[s] >= 0
      /\ MatchingNow(s) > 0 =>
           /\ page[s] < total_pages(MatchingNow(s))
           /\ screen[s] # "empty"

\* the step is a save of session s that wrote what the form shows when it is
\* opened (the default status and assignee, no note) to the ticket as read
NoOpSave(s) ==
  LET t == ObjectId(selected[s])
  IN /\ SaveWritten(s) /\ store[t].present /\ store[t] = cur[s]
     /\ store'[t].status = DefaultStatus(cur[s])
     /\ store'[t].assigned_to = final_assignee(DefaultAssignee(cur[s]))
     /\ store'[t].internal_notes = cur[s].internal_notes

\* C17: a save with the form's default selections and an empty note leaves
\* status, assigned_to and internal_notes of the ticket as they were stored.
C17_NoOpSaveChangesNothing ==
  [][\A s \in Sessions :
       NoOpSave(s) => store'[ObjectId(selected[s])] = store[ObjectId(selected[s])]]_vars

====
